---- MODULE Spec2Model ----
(***************************************************************************)
(* MapView (src/__init__.py): the tile pyramid of a MapSource, the         *)
(* viewport tile manager of MapView, and the Downloader's worker pool,     *)
(* disk cache and periodic drain.                                          *)
(*                                                                         *)
(* Numbers.  The program computes in Python floats.  Every pixel quantity  *)
(* the modelled runs produce is a dyadic rational, so pixels are held      *)
(* exactly as integers in units of 1/PxScale pixel, and degrees in units   *)
(* of 1/DegScale degree.  The Mercator ordinate (log, tan, cos, atan, exp) *)
(* is tabulated from the program's formula at MercN knots per world edge;  *)
(* get_x and get_y land on the pixel grid that a zoom-out keeps exact.     *)
(***************************************************************************)
EXTENDS Integers, Sequences, FiniteSets, TLC

\* ------------------------------------------------------------------ bounds
\* Highest zoom the modelled gestures reach (get_max_zoom is 19).
ZoomCap == 6
\* Tile objects created in one run of the whole program.
MaxTiles == 5
\* Tile objects created in one run of the tile manager alone.
MaxPassTiles == 24
\* Events (gestures, resizes, source changes) the widget receives in one run.
MaxEvents == 2
\* Events the tile manager alone receives in one run.
MaxPassEvents == 3
\* Fetch jobs that fail (network or disk) in one run.
MaxFailures == 1

\* ------------------------------------------------------- program constants
MIN_LATITUDE == -90
MAX_LATITUDE == 90
MIN_LONGITUDE == -180
MAX_LONGITUDE == 180
MAX_WORKERS == 2
DEFAULT_TILE_SIZE == 256
DEFAULT_ZOOM == 5

\* ------------------------------------------------------------------- units
PxScale == 2 ^ ZoomCap
DegScale == 2 ^ 19
MercN == 2 ^ 6
MercExt == 2 ^ 4

Px(p) == p * PxScale
Deg(d) == d * DegScale

Max2(a, b) == IF a >= b THEN a ELSE b
Min2(a, b) == IF a <= b THEN a ELSE b

clamp(x, minimum, maximum) == Max2(minimum, Min2(x, maximum))

\* ---------------------------------------------------------------- MapSource
MapSourceDefault ==
    [cache_key |-> "osm", min_zoom |-> 0, max_zoom |-> 19,
     tile_size |-> DEFAULT_TILE_SIZE, image_ext |-> "png"]

\* MapSource.providers, the presets the model uses.
from_provider(key) ==
    CASE key = "osm" -> MapSourceDefault
      [] key = "cyclemap" ->
            [MapSourceDefault EXCEPT !.cache_key = key, !.max_zoom = 17]
      [] key = "mapquest-osm" ->
            [MapSourceDefault EXCEPT !.cache_key = key, !.image_ext = "jpeg"]

get_row_count(zoom) == IF zoom = 0 THEN 1 ELSE 2 * 2 ^ (zoom - 1)

get_col_count(zoom) == IF zoom = 0 THEN 1 ELSE 2 * 2 ^ (zoom - 1)

get_min_zoom == 0

get_max_zoom == 19

\* The world's edge at a zoom, 2^zoom * tile_size pixels, in pixel units.
WorldPx(ms, zoom) == Px(2 ^ zoom * ms.tile_size)

\* Degree units per pixel unit along the x axis at a zoom.
LonPerPx(ms, zoom) == Deg(360) \div WorldPx(ms, zoom)

\* ((lon + 180) / 360 * 2^zoom) * tile_size
get_x(ms, zoom, lon) ==
    LET l == clamp(lon, Deg(MIN_LONGITUDE), Deg(MAX_LONGITUDE))
    IN  ((l + Deg(180)) \div LonPerPx(ms, 0)) * 2 ^ zoom

\* x / tile_size / 2^zoom * 360 - 180, clamped.  An abscissa outside the world
\* clamps to the same end of the range as the nearer edge of the world does, so
\* the product is taken at the edge.
get_lon(ms, zoom, x) ==
    LET xw == clamp(x, 0, WorldPx(ms, zoom))
    IN  clamp(xw * LonPerPx(ms, zoom) - Deg(180), Deg(MIN_LONGITUDE), Deg(MAX_LONGITUDE))

\* -180/pi * atan(sinh(pi - 2 pi k / MercN)) in degree units, for the knots
\* k = -MercExt .. MercN + MercExt (get_lat's formula at y = k / MercN world edges).
MercLat ==
    << -46646228, -46590559, -46529149, -46461405, -46386676, -46304241,
       -46213306, -46112995, -46002345, -45880289, -45745655, -45597150,
       -45433348, -45252679, -45053414, -44833649, -44591286, -44324021,
       -44029318, -43704391, -43346184, -42951344, -42516199, -42036737,
       -41508581, -40926964, -40286718, -39582254, -38807558, -37956200,
       -37021346, -35995808, -34872104, -33642568, -32299494, -30835339,
       -29242988, -27516092, -25649479, -23639640, -21485269, -19187834,
       -16752135, -14186775, -11504475, -8722156, -5860702, -2944394,
       0, 2944394, 5860702, 8722156, 11504475, 14186775,
       16752135, 19187834, 21485269, 23639640, 25649479, 27516092,
       29242988, 30835339, 32299494, 33642568, 34872104, 35995808,
       37021346, 37956200, 38807558, 39582254, 40286718, 40926964,
       41508581, 42036737, 42516199, 42951344, 43346184, 43704391,
       44029318, 44324021, 44591286, 44833649, 45053414, 45252679,
       45433348, 45597150, 45745655, 45880289, 46002345, 46112995,
       46213306, 46304241, 46386676, 46461405, 46529149, 46590559,
       46646228 >>

\* The knot of get_y's formula at lat = -90: tan(pi/2) is finite in floats and
\* the ordinate is -5.5519 world edges.
MercKnotSouthPole == -355

KnotLat(k) == MercLat[clamp(k, -MercExt, MercN + MercExt) + MercExt + 1]

\* Pixel units between two knots at a zoom.
KnotPx(ms, zoom) == WorldPx(ms, zoom) \div MercN

\* get_y raises ValueError (log of 0.0) exactly when -lat clamps to -90.
get_y_raises(lat) == clamp(-lat, Deg(MIN_LATITUDE), Deg(MAX_LATITUDE)) = Deg(MIN_LATITUDE)

\* ((1 - log(tan(lat) + 1 / cos(lat)) / pi) / 2 * 2^zoom) * tile_size, lat negated
get_y(ms, zoom, lat) ==
    LET l == clamp(-lat, Deg(MIN_LATITUDE), Deg(MAX_LATITUDE))
        below == {k \in (-MercExt)..(MercN + MercExt) : KnotLat(k) <= -l}
        knot == IF l = Deg(MAX_LATITUDE) THEN MercKnotSouthPole
                ELSE IF below = {} THEN -MercExt
                ELSE CHOOSE k \in below : \A j \in below : j <= k
    IN  knot * KnotPx(ms, zoom)

\* -180/pi * atan(sinh(pi - 2 pi (y / tile_size) / 2^zoom)), clamped
get_lat(ms, zoom, y) ==
    LET knot == y \div KnotPx(ms, zoom)
        la == IF knot < -MercExt THEN Deg(MIN_LATITUDE)
              ELSE IF knot > MercN + MercExt THEN Deg(MAX_LATITUDE)
              ELSE KnotLat(knot)
    IN  clamp(la, Deg(MIN_LATITUDE), Deg(MAX_LATITUDE))

\* ------------------------------------------------------------------- state
VARIABLES
    zoom, viewport_x, viewport_y, lon, lat,  \* MapView properties
    width, height, map_source,               \* Widget size, current MapSource
    tiles,         \* every Tile object created so far, by identity (1..Len)
    _tiles,        \* MapView._tiles: identities, in creation order
    _tilemap,      \* MapView._tilemap: the keys present
    canvas_map,    \* MapView.canvas_map: the Tile instructions on the canvas
    _downloader,   \* the module's Downloader singleton exists
    _futures,      \* Downloader._futures: the futures not yet drained
    future,        \* the Future of each tile's job: state and outcome
    queue,         \* ThreadPoolExecutor's work queue
    threads,       \* the pool's busy threads: the tile of each, where it is in _load_tile
    files,         \* the cache directory: file name -> content
    error,         \* the exception that ended the event loop, if any
    failures,      \* fetch jobs that have failed so far
    events         \* the events the widget has handled, in order

vars == <<zoom, viewport_x, viewport_y, lon, lat, width, height, map_source,
          tiles, _tiles, _tilemap, canvas_map, _downloader, _futures, future,
          queue, threads, files, error, failures, events>>

None == <<>>

Range(seq) == {seq[i] : i \in DOMAIN seq}

\* Op applied to the value of v: the steps of a handler, one after the other.
Then(v, Op(_)) == CHOOSE r \in {Op(x) : x \in {v}} : TRUE

\* The consumer thread's view of the program: what its handlers read and write.
View ==
    [zoom |-> zoom, viewport_x |-> viewport_x, viewport_y |-> viewport_y,
     lon |-> lon, lat |-> lat, width |-> width, height |-> height,
     map_source |-> map_source, tiles |-> tiles, _tiles |-> _tiles,
     _tilemap |-> _tilemap, canvas_map |-> canvas_map,
     _downloader |-> _downloader, _futures |-> _futures, future |-> future,
     queue |-> queue, files |-> files, error |-> error]

\* ---------------------------------------------------------------------- Tile
\* Tile.cache_fn: join(CACHE_DIR, "{cache_key}_{zoom}_{tile_x}_{tile_y}.{image_ext}").
\* The name is held as its fields: the numbers are decimal and the key has no
\* digits, so the formatted string determines them.
cache_fn(tile) ==
    <<tile.map_source.cache_key, tile.zoom, tile.tile_x, tile.tile_y,
      tile.map_source.image_ext>>

exists(fs, fn) == fn \in DOMAIN fs

\* ---------------------------------------------------------------- Downloader
\* Downloader.download (and the lazy Downloader() of fill_tile): submit the job,
\* remember its future.
download(s, t) ==
    [s EXCEPT !._downloader = TRUE,
              !.future[t] = [state |-> "PENDING", result |-> None, exception |-> FALSE],
              !.queue = Append(@, t),
              !._futures = Append(@, t)]

\* MapSource.fill_tile
fill_tile(s, t) ==
    IF s.tiles[t].state = "done" THEN s
    ELSE IF exists(s.files, cache_fn(s.tiles[t]))
         THEN [s EXCEPT !.tiles[t].source = cache_fn(s.tiles[t])]
         ELSE download(s, t)

\* ------------------------------------------------------------------- MapView
tile_key(s, tile_x, tile_y) == tile_y * get_col_count(s.zoom) + tile_x

tile_map_set(s, tile_x, tile_y, value) ==
    IF value THEN [s EXCEPT !._tilemap = @ \cup {tile_key(s, tile_x, tile_y)}]
    ELSE [s EXCEPT !._tilemap = @ \ {tile_key(s, tile_x, tile_y)}]

tile_in_tile_map(s, tile_x, tile_y) == tile_key(s, tile_x, tile_y) \in s._tilemap

remove_all_tiles(s) ==
    [s EXCEPT !.canvas_map = <<>>,
              !.tiles = [t \in DOMAIN @ |->
                            IF t \in Range(s._tiles) THEN [@[t] EXCEPT !.state = "done"]
                            ELSE @[t]],
              !._tiles = <<>>,
              !._tilemap = {}]

load_tile_for_source(s, ms, size, x, y) ==
    LET t == Len(s.tiles) + 1
        tile == [tile_x |-> x, tile_y |-> y, zoom |-> s.zoom, map_source |-> ms,
                 state |-> "loading", source |-> None]
        s1 == [s EXCEPT !.tiles = Append(@, tile),
                        !.future = Append(@, [state |-> "NONE", result |-> None, exception |-> FALSE])]
    IN  Then(fill_tile(s1, t),
             LAMBDA s2 : [s2 EXCEPT !.canvas_map = Append(@, t), !._tiles = Append(@, t)])

\* load_tile without its tile_map_set
load_tile_unrecorded(s, x, y, size, z) ==
    IF tile_in_tile_map(s, x, y) \/ z # s.zoom THEN s
    ELSE load_tile_for_source(s, s.map_source, size, x, y)

load_tile(s, x, y, size, z) ==
    IF tile_in_tile_map(s, x, y) \/ z # s.zoom THEN s
    ELSE Then(load_tile_for_source(s, s.map_source, size, x, y),
              LAMBDA s1 : tile_map_set(s1, x, y, TRUE))

\* The rectangle without the margin: count = ceil(dimension / tile_size)
VisibleRectNoMargin(s) ==
    LET size == s.map_source.tile_size
        max_x_end == get_col_count(s.zoom)
        max_y_end == get_row_count(s.zoom)
        x_count0 == (s.width + size - 1) \div size
        y_count0 == (s.height + size - 1) \div size
        tile_x_first == clamp(s.viewport_x, 0, Px(max_x_end * size)) \div Px(size)
        tile_y_first == clamp(s.viewport_y, 0, Px(max_y_end * size)) \div Px(size)
        tile_x_last == clamp(tile_x_first + x_count0, tile_x_first, max_x_end)
        tile_y_last == clamp(tile_y_first + y_count0, tile_y_first, max_y_end)
    IN  [tile_x_first |-> tile_x_first, tile_y_first |-> tile_y_first,
         tile_x_last |-> tile_x_last, tile_y_last |-> tile_y_last,
         x_count |-> tile_x_last - tile_x_first,
         y_count |-> tile_y_last - tile_y_first]

\* The rectangle without the clamp of its far edge to the pyramid.
VisibleRectUnclamped(s) ==
    LET size == s.map_source.tile_size
        max_x_end == get_col_count(s.zoom)
        max_y_end == get_row_count(s.zoom)
        x_count0 == ((s.width + size - 1) \div size) + 1
        y_count0 == ((s.height + size - 1) \div size) + 1
        tile_x_first == clamp(s.viewport_x, 0, Px(max_x_end * size)) \div Px(size)
        tile_y_first == clamp(s.viewport_y, 0, Px(max_y_end * size)) \div Px(size)
    IN  [tile_x_first |-> tile_x_first, tile_y_first |-> tile_y_first,
         tile_x_last |-> tile_x_first + x_count0,
         tile_y_last |-> tile_y_first + y_count0,
         x_count |-> x_count0, y_count |-> y_count0]

\* The visible rectangle of load_visible_tiles (lines 358-372).
VisibleRect(s) ==
    LET size == s.map_source.tile_size
        max_x_end == get_col_count(s.zoom)
        max_y_end == get_row_count(s.zoom)
        x_count0 == ((s.width + size - 1) \div size) + 1
        y_count0 == ((s.height + size - 1) \div size) + 1
        tile_x_first == clamp(s.viewport_x, 0, Px(max_x_end * size)) \div Px(size)
        tile_y_first == clamp(s.viewport_y, 0, Px(max_y_end * size)) \div Px(size)
        tile_x_last == clamp(tile_x_first + x_count0, tile_x_first, max_x_end)
        tile_y_last == clamp(tile_y_first + y_count0, tile_y_first, max_y_end)
    IN  [tile_x_first |-> tile_x_first, tile_y_first |-> tile_y_first,
         tile_x_last |-> tile_x_last, tile_y_last |-> tile_y_last,
         x_count |-> tile_x_last - tile_x_first,
         y_count |-> tile_y_last - tile_y_first]

InRect(r, x, y) ==
    /\ y >= r.tile_y_first /\ y < r.tile_y_last
    /\ x >= r.tile_x_first /\ x < r.tile_x_last

\* The eviction that marks the old tiles done and leaves their keys in the map
EvictOldKeepsKeys(s, r) ==
    LET old == {t \in Range(s._tiles) :
                    ~InRect(r, s.tiles[t].tile_x, s.tiles[t].tile_y)}
    IN  [s EXCEPT !.tiles = [t \in DOMAIN @ |->
                                IF t \in old THEN [@[t] EXCEPT !.state = "done"]
                                ELSE @[t]]]

\* "Get rid of old tiles first" (lines 378-387).  relocate only rewrites pos,
\* which is tile_x * size, tile_y * size from creation on.
EvictOld(s, r) ==
    LET old == {t \in Range(s._tiles) :
                    ~InRect(r, s.tiles[t].tile_x, s.tiles[t].tile_y)}
    IN  [s EXCEPT !.tiles = [t \in DOMAIN @ |->
                                IF t \in old THEN [@[t] EXCEPT !.state = "done"]
                                ELSE @[t]],
                  !._tilemap = @ \ {tile_key(s, s.tiles[t].tile_x, s.tiles[t].tile_y) :
                                       t \in old}]

dirs == <<0, 1, 0, -1, 0>>

\* "Load new tiles if needed" (lines 389-408): the while loop over the arms, the
\* for loop over one arm's cells (i counts them).
RECURSIVE Spiral(_, _, _, _, _, _, _, _)
Spiral(s, r, arm_max, x, y, arm_size, turn, i) ==
    IF arm_size >= arm_max THEN s
    ELSE IF i >= arm_size
         THEN Spiral(s, r, arm_max, x, y,
                     IF turn % 2 = 1 THEN arm_size + 1 ELSE arm_size, turn + 1, 0)
    ELSE Then(IF ~tile_in_tile_map(s, x, y) /\ InRect(r, x, y)
              THEN load_tile(s, x, y, s.map_source.tile_size, s.zoom)
              ELSE s,
              LAMBDA s1 : Spiral(s1, r, arm_max, x + dirs[(turn % 4) + 2],
                                 y + dirs[(turn % 4) + 1], arm_size, turn, i + 1))

\* The spiral started at the rectangle's first cell instead of its middle
load_visible_tiles_from_corner(s, relocate) ==
    LET r == VisibleRect(s)
        arm_max == Max2(r.x_count, r.y_count) + 2
    IN  Then(EvictOld(s, r),
             LAMBDA s1 : Spiral(s1, r, arm_max, r.tile_x_first, r.tile_y_first, 1, 0, 0))

\* The spiral with one arm length less: arm_max = max(x_count, y_count) + 1
load_visible_tiles_short(s, relocate) ==
    LET r == VisibleRect(s)
        x == r.tile_x_first + (r.x_count \div 2) - 1
        y == r.tile_y_first + (r.y_count \div 2) - 1
        arm_max == Max2(r.x_count, r.y_count) + 1
    IN  Then(EvictOld(s, r), LAMBDA s1 : Spiral(s1, r, arm_max, x, y, 1, 0, 0))

load_visible_tiles(s, relocate) ==
    LET r == VisibleRect(s)
        x == r.tile_x_first + (r.x_count \div 2) - 1
        y == r.tile_y_first + (r.y_count \div 2) - 1
        arm_max == Max2(r.x_count, r.y_count) + 2
    IN  Then(EvictOld(s, r), LAMBDA s1 : Spiral(s1, r, arm_max, x, y, 1, 0, 0))

_update_coords(s, x, y) ==
    [s EXCEPT !.viewport_x = x,
              !.viewport_y = y,
              !.lon = get_lon(s.map_source, s.zoom, x + (Px(s.width) \div 2)),
              !.lat = get_lat(s.map_source, s.zoom, y + (Px(s.height) \div 2))]

center_on(s, la, lo) ==
    LET lo1 == clamp(lo, Deg(MIN_LONGITUDE), Deg(MAX_LONGITUDE))
        la1 == clamp(la, Deg(MIN_LATITUDE), Deg(MAX_LATITUDE))
        x == get_x(s.map_source, s.zoom, lo1) - (Px(s.width) \div 2)
        y == get_y(s.map_source, s.zoom, la1) - (Px(s.height) \div 2)
    IN  IF get_y_raises(la1) THEN [s EXCEPT !.error = "ValueError"]
        ELSE Then(remove_all_tiles(_update_coords(s, x, y)),
                  LAMBDA s1 : load_visible_tiles(s1, FALSE))

\* deltazoom = pow(2, zoom - self.zoom); (viewport + anchor) * deltazoom - anchor
ZoomAxis(s, z, v, a) ==
    IF z >= s.zoom THEN ((v + a) * 2 ^ (z - s.zoom)) - a
    ELSE ((v + a) \div 2 ^ (s.zoom - z)) - a

_get_x_y_for_zoom_level(s, z, x, y) ==
    <<ZoomAxis(s, z, s.viewport_x, x), ZoomAxis(s, z, s.viewport_y, y)>>

\* set_zoom_at with self.zoom assigned before the new offset is computed
set_zoom_at_switched(s, z, x, y) ==
    LET z1 == clamp(z, get_min_zoom, get_max_zoom)
        s1 == [s EXCEPT !.zoom = z1]
        xy == _get_x_y_for_zoom_level(s1, z1, x, y)
    IN  IF z1 = s.zoom THEN s
        ELSE Then(remove_all_tiles(_update_coords(s1, xy[1], xy[2])),
                  LAMBDA s2 : load_visible_tiles(s2, FALSE))

\* set_zoom_at without its remove_all_tiles
set_zoom_at_keeps_tiles(s, z, x, y) ==
    LET z1 == clamp(z, get_min_zoom, get_max_zoom)
        xy == _get_x_y_for_zoom_level(s, z1, x, y)
        s1 == [s EXCEPT !.zoom = z1]
    IN  IF z1 = s.zoom THEN s
        ELSE Then(_update_coords(s1, xy[1], xy[2]),
                  LAMBDA s2 : load_visible_tiles(s2, FALSE))

set_zoom_at(s, z, x, y) ==
    LET z1 == clamp(z, get_min_zoom, get_max_zoom)
        xy == _get_x_y_for_zoom_level(s, z1, x, y)
        s1 == [s EXCEPT !.zoom = z1]
    IN  IF z1 = s.zoom THEN s
        ELSE Then(remove_all_tiles(_update_coords(s1, xy[1], xy[2])),
                  LAMBDA s2 : load_visible_tiles(s2, FALSE))

\* unload that cancels the jobs too: the queue and the pending futures are dropped
unload_cancels(s) == [remove_all_tiles(s) EXCEPT !.queue = <<>>, !._futures = <<>>]

unload(s) == remove_all_tiles(s)

\* on_touch_down with a scroll (d = 1, -1) or a double tap (d = 1) inside the widget
on_touch_down(s, d, x, y) ==
    set_zoom_at(s, clamp(s.zoom + d, get_min_zoom, get_max_zoom), x, y)

\* on_touch_move of a grabbed touch
on_touch_move(s, dx, dy) ==
    LET s1 == [s EXCEPT
                 !.lon = get_lon(s.map_source, s.zoom, s.viewport_x + (Px(s.width) \div 2)),
                 !.lat = get_lat(s.map_source, s.zoom, s.viewport_y + (Px(s.height) \div 2)),
                 !.viewport_x = @ - dx,
                 !.viewport_y = @ - dy]
    IN  Then(s1, LAMBDA s2 : load_visible_tiles(s2, TRUE))

\* on_size: the widget's size has been set; note center_on(self.lon, self.lat)
on_size(s) ==
    Then(remove_all_tiles(s), LAMBDA s1 :
        Then(load_visible_tiles(s1, FALSE), LAMBDA s2 : center_on(s2, s.lon, s.lat)))

\* The tail of on_map_source once self.map_source holds a MapSource.
SourceChanged(s) ==
    Then(remove_all_tiles(
             [s EXCEPT !.zoom = clamp(@, s.map_source.min_zoom, s.map_source.max_zoom)]),
         LAMBDA s1 : load_visible_tiles(s1, FALSE))

\* on_map_source.  A key or a tuple is replaced by the MapSource built from it;
\* that assignment dispatches on_map_source again, with the MapSource, before
\* the outer call goes on.
on_map_source(s, form, ms) ==
    LET s1 == [s EXCEPT !.map_source = ms]
    IN  IF form = "object" THEN SourceChanged(s1)
        ELSE Then(SourceChanged(s1), LAMBDA s2 : SourceChanged(s2))

\* ------------------------------------------------------------------ inputs
\* center_on's arguments (lat, lon) in degree units: Lille (50.6394, 3.057) and
\* Sydney (-33.867, 151.206), the two places of the demo toolbar.
Places == {<<26549630, 1602748>>, <<-17756062, 79275491>>}
\* set_zoom_at's zoom argument: below get_min_zoom, and the zoom above the default.
ZoomTargets == {-1, 6}
\* Anchor (touch) positions inside the widget, in pixels.
Anchors == {<<0, 0>>, <<60, 40>>}
\* touch.dx, touch.dy of a move, in pixels.
Moves == {<<0, 0>>, <<-300, 0>>, <<300, -300>>}
Sizes == {<<100, 100>>, <<300, 200>>}
\* (cache_key, min_zoom, max_zoom, url, attribution, options): a one-level map
MapSourceTuple ==
    [MapSourceDefault EXCEPT !.cache_key = "custom", !.min_zoom = 0, !.max_zoom = 0]
\* MapSource(cache_key="narrow", min_zoom=2, max_zoom=4)
MapSourceNarrow ==
    [MapSourceDefault EXCEPT !.cache_key = "narrow", !.min_zoom = 2, !.max_zoom = 4]
SourceInputs ==
    {<<"key", from_provider("cyclemap")>>, <<"tuple", MapSourceTuple>>,
     <<"object", MapSourceDefault>>, <<"object", MapSourceNarrow>>}

\* --------------------------------------------------------------------- Init
Init ==
    /\ zoom = DEFAULT_ZOOM
    /\ viewport_x = 0
    /\ viewport_y = 0
    /\ lon = 0
    /\ lat = 0
    /\ width = 100
    /\ height = 100
    /\ map_source = MapSourceDefault
    /\ tiles = <<>>
    /\ _tiles = <<>>
    /\ _tilemap = {}
    /\ canvas_map = <<>>
    /\ _downloader = FALSE
    /\ _futures = <<>>
    /\ future = <<>>
    /\ queue = <<>>
    /\ threads = {}
    /\ files = <<>>
    /\ error = "none"
    /\ failures = 0
    /\ events = <<>>

\* ------------------------------------------------- the consumer thread's steps
\* The event loop is alive and takes one more event, of at most k.
Handles(k) == error = "none" /\ Len(events) < k

\* The handler of event e has run to its end (or to the exception that ended
\* it) and left the consumer's view as s, with at most n tiles created so far.
Commit(n, e, s) ==
    /\ Len(s.tiles) <= n
    /\ s.zoom <= ZoomCap
    /\ events' = Append(events, e)
    /\ zoom' = s.zoom
    /\ viewport_x' = s.viewport_x
    /\ viewport_y' = s.viewport_y
    /\ lon' = s.lon
    /\ lat' = s.lat
    /\ width' = s.width
    /\ height' = s.height
    /\ map_source' = s.map_source
    /\ tiles' = s.tiles
    /\ _tiles' = s._tiles
    /\ _tilemap' = s._tilemap
    /\ canvas_map' = s.canvas_map
    /\ _downloader' = s._downloader
    /\ _futures' = s._futures
    /\ future' = s.future
    /\ queue' = s.queue
    /\ error' = s.error
    /\ UNCHANGED <<threads, files, failures>>

Unload == Handles(MaxEvents) /\ \E s \in {unload(View)} : Commit(MaxTiles, <<"unload">>, s)

CenterOn ==
    Handles(MaxEvents) /\ \E p \in Places :
        \E s \in {center_on(View, p[1], p[2])} :
            Commit(MaxTiles, <<"center_on", p[1], p[2]>>, s)

SetZoomAt(n, k) ==
    Handles(k) /\ \E z \in ZoomTargets, a \in Anchors :
        \E s \in {set_zoom_at(View, z, Px(a[1]), Px(a[2]))} :
            Commit(n, <<"set_zoom_at", z, a[1], a[2]>>, s)

OnTouchDown ==
    Handles(MaxEvents) /\ \E d \in {-1, 1}, a \in Anchors \ {<<0, 0>>} :
        \E s \in {on_touch_down(View, d, Px(a[1]), Px(a[2]))} :
            Commit(MaxTiles, <<"on_touch_down", d, a[1], a[2]>>, s)

OnTouchMove(n, k) ==
    Handles(k) /\ \E m \in Moves :
        \E s \in {on_touch_move(View, Px(m[1]), Px(m[2]))} :
            Commit(n, <<"on_touch_move", m[1], m[2]>>, s)

\* load_visible_tiles called by the application
LoadVisibleTiles(n, k) ==
    Handles(k) /\ \E s \in {load_visible_tiles(View, FALSE)} :
        Commit(n, <<"load_visible_tiles">>, s)

OnSize ==
    Handles(MaxEvents) /\ \E sz \in Sizes :
        /\ sz # <<width, height>>
        /\ \E s \in {on_size([View EXCEPT !.width = sz[1], !.height = sz[2]])} :
               Commit(MaxTiles, <<"on_size", sz[1], sz[2]>>, s)

OnMapSource ==
    Handles(MaxEvents) /\ \E src \in SourceInputs :
        \E s \in {on_map_source(View, src[1], src[2])} :
            Commit(MaxTiles, <<"on_map_source", src[1], src[2].cache_key>>, s)

\* Downloader._check_executor, the 1/60 s clock callback: as_completed(..., 0)
\* yields the futures that are finished and raises TimeoutError for the rest.
Completed == {t \in Range(_futures) : future[t].state = "FINISHED"}

\* future.result() neither raises nor is None
Delivers(t) == ~future[t].exception /\ future[t].result # None

\* The drain without the try around future.result(): the job's exception
\* leaves the callback.
_check_executor_unguarded ==
    /\ error = "none"
    /\ _downloader
    /\ _futures' = SelectSeq(_futures, LAMBDA t : t \notin Completed)
    /\ tiles' = [t \in DOMAIN tiles |->
                    IF t \in Completed /\ Delivers(t)
                    THEN [tiles[t] EXCEPT !.source = future[t].result[2]]
                    ELSE tiles[t]]
    /\ error' = IF \E t \in Completed : future[t].exception THEN "Exception" ELSE error
    /\ UNCHANGED <<zoom, viewport_x, viewport_y, lon, lat, width, height, map_source,
                   _tiles, _tilemap, canvas_map, _downloader, future, queue, threads,
                   files, failures, events>>

\* The drain that leaves the futures it has handled in Downloader._futures
_check_executor_keeps ==
    /\ error = "none"
    /\ _downloader
    /\ tiles' = [t \in DOMAIN tiles |->
                    IF t \in Completed /\ Delivers(t)
                    THEN [tiles[t] EXCEPT !.source = future[t].result[2]]
                    ELSE tiles[t]]
    /\ UNCHANGED <<zoom, viewport_x, viewport_y, lon, lat, width, height, map_source,
                   _tiles, _tilemap, canvas_map, _downloader, _futures, future, queue,
                   threads, files, error, failures, events>>

\* The drain that removes the finished futures and drops their results
_check_executor_drops ==
    /\ error = "none"
    /\ _downloader
    /\ _futures' = SelectSeq(_futures, LAMBDA t : t \notin Completed)
    /\ UNCHANGED <<zoom, viewport_x, viewport_y, lon, lat, width, height, map_source,
                   tiles, _tiles, _tilemap, canvas_map, _downloader, future, queue,
                   threads, files, error, failures, events>>

_check_executor ==
    /\ error = "none"
    /\ _downloader
    /\ _futures' = SelectSeq(_futures, LAMBDA t : t \notin Completed)
    /\ tiles' = [t \in DOMAIN tiles |->
                    IF t \in Completed /\ Delivers(t)
                    THEN [tiles[t] EXCEPT !.source = future[t].result[2]]
                    ELSE tiles[t]]
    /\ UNCHANGED <<zoom, viewport_x, viewport_y, lon, lat, width, height, map_source,
                   _tiles, _tilemap, canvas_map, _downloader, future, queue, threads,
                   files, error, failures, events>>

\* ------------------------------------------------------ the pool's threads
\* A pool of one thread more
max_workers_plus_one == MAX_WORKERS + 1

\* ThreadPoolExecutor(max_workers=MAX_WORKERS)
max_workers == MAX_WORKERS

\* _WorkItem.run: the future ends with the function's result or its exception.
Finish(t, result, exception) ==
    /\ future' = [future EXCEPT ![t] =
                     [state |-> "FINISHED", result |-> result, exception |-> exception]]
    /\ threads' = {th \in threads : th.tile # t}

\* _load_tile without its exists(cache_fn) test
WorkerTakeFetches ==
    LET t == Head(queue)
    IN  /\ error = "none"
        /\ queue # <<>>
        /\ Cardinality(threads) < max_workers
        /\ queue' = Tail(queue)
        /\ IF tiles[t].state = "done" THEN Finish(t, None, FALSE)
           ELSE /\ threads' = threads \cup {[tile |-> t, pc |-> "urlopen"]}
                /\ future' = [future EXCEPT ![t].state = "RUNNING"]
        /\ UNCHANGED <<zoom, viewport_x, viewport_y, lon, lat, width, height,
                       map_source, tiles, _tiles, _tilemap, canvas_map, _downloader,
                       _futures, files, error, failures, events>>

\* A free thread takes the next work item and runs _load_tile up to urlopen
\* (lines 73-81).
WorkerTake ==
    LET t == Head(queue)
        fn == cache_fn(tiles[t])
    IN  /\ error = "none"
        /\ queue # <<>>
        /\ Cardinality(threads) < max_workers
        /\ queue' = Tail(queue)
        /\ IF tiles[t].state = "done" THEN Finish(t, None, FALSE)
           ELSE IF exists(files, fn) THEN Finish(t, <<t, fn>>, FALSE)
           ELSE /\ threads' = threads \cup {[tile |-> t, pc |-> "urlopen"]}
                /\ future' = [future EXCEPT ![t].state = "RUNNING"]
        /\ UNCHANGED <<zoom, viewport_x, viewport_y, lon, lat, width, height,
                       map_source, tiles, _tiles, _tilemap, canvas_map, _downloader,
                       _futures, files, error, failures, events>>

\* urlopen(uri, timeout=5).read() returns the data; open(cache_fn, "wb")
\* creates the file, or truncates it.
UrlOpen(t) ==
    LET fn == cache_fn(tiles[t])
    IN  /\ error = "none"
        /\ [tile |-> t, pc |-> "urlopen"] \in threads
        /\ files' = [f \in DOMAIN files \cup {fn} |-> IF f = fn THEN "empty" ELSE files[f]]
        /\ threads' = (threads \ {[tile |-> t, pc |-> "urlopen"]})
                          \cup {[tile |-> t, pc |-> "write"]}
        /\ UNCHANGED <<zoom, viewport_x, viewport_y, lon, lat, width, height,
                       map_source, tiles, _tiles, _tilemap, canvas_map, _downloader,
                       _futures, future, queue, error, failures, events>>

\* urlopen raises: a timeout, a transport error
UrlOpenFails(t) ==
    /\ error = "none"
    /\ [tile |-> t, pc |-> "urlopen"] \in threads
    /\ failures < MaxFailures
    /\ failures' = failures + 1
    /\ Finish(t, None, TRUE)
    /\ UNCHANGED <<zoom, viewport_x, viewport_y, lon, lat, width, height, map_source,
                   tiles, _tiles, _tilemap, canvas_map, _downloader, _futures,
                   queue, files, error, events>>

\* fd.write(data), the file is closed, _load_tile returns tile, cache_fn
WriteFile(t) ==
    LET fn == cache_fn(tiles[t])
    IN  /\ error = "none"
        /\ [tile |-> t, pc |-> "write"] \in threads
        /\ files' = [files EXCEPT ![fn] = "data"]
        /\ Finish(t, <<t, fn>>, FALSE)
        /\ UNCHANGED <<zoom, viewport_x, viewport_y, lon, lat, width, height,
                       map_source, tiles, _tiles, _tilemap, canvas_map, _downloader,
                       _futures, queue, error, failures, events>>

\* fd.write raises (the disk is full): the file stays as open left it
WriteFileFails(t) ==
    /\ error = "none"
    /\ [tile |-> t, pc |-> "write"] \in threads
    /\ failures < MaxFailures
    /\ failures' = failures + 1
    /\ Finish(t, None, TRUE)
    /\ UNCHANGED <<zoom, viewport_x, viewport_y, lon, lat, width, height, map_source,
                   tiles, _tiles, _tilemap, canvas_map, _downloader, _futures,
                   queue, files, error, events>>

Next ==
    \/ Unload
    \/ CenterOn
    \/ SetZoomAt(MaxTiles, MaxEvents)
    \/ OnTouchDown
    \/ OnTouchMove(MaxTiles, MaxEvents)
    \/ LoadVisibleTiles(MaxTiles, MaxEvents)
    \/ OnSize
    \/ OnMapSource
    \/ _check_executor
    \/ WorkerTake
    \/ \E t \in DOMAIN tiles : UrlOpen(t)
    \/ \E t \in DOMAIN tiles : UrlOpenFails(t)
    \/ \E t \in DOMAIN tiles : WriteFile(t)
    \/ \E t \in DOMAIN tiles : WriteFileFails(t)

Spec == Init /\ [][Next]_vars

\* ------------------------------------------------------- fair scheduling
\* A step of the pool: an idle thread takes the next work item, or a thread
\* inside urlopen (timeout = 5) or fd.write comes out of it, with the data or
\* with an exception.
PoolStep ==
    \/ WorkerTake
    \/ \E t \in DOMAIN tiles :
          UrlOpen(t) \/ UrlOpenFails(t) \/ WriteFile(t) \/ WriteFileFails(t)

\* The clock calls _check_executor every 1/60 s, and the pool takes a step
\* whenever it has one to take.
Fairness ==
    /\ WF_vars(_check_executor)
    /\ WF_vars(PoolStep)

SpecFair == Spec /\ Fairness

\* ------------------------------------------------ the tile manager alone
\* load_visible_tiles and set_zoom_at as functions of the viewport: the zoom,
\* the widget's size and the offset are drawn from these sets, with nothing
\* loaded yet.
PassZooms == {0, 1, 3}
PassSizes == {<<100, 100>>, <<300, 200>>, <<200, 600>>, <<700, 300>>}
\* Offsets in pixels: left of the map, on its edge, inside a tile, across
\* tiles, and (from the far edge) just inside, on and past the end.
PassOffsets(z) ==
    {Px(-300), 0, Px(200), Px(520)}
        \cup {WorldPx(MapSourceDefault, z) + Px(d) : d \in {-10, 0, 40}}

InitPass ==
    /\ zoom \in PassZooms
    /\ viewport_x \in PassOffsets(zoom)
    /\ viewport_y \in PassOffsets(zoom)
    /\ \E sz \in PassSizes : width = sz[1] /\ height = sz[2]
    /\ lon = 0
    /\ lat = 0
    /\ map_source = MapSourceDefault
    /\ tiles = <<>>
    /\ _tiles = <<>>
    /\ _tilemap = {}
    /\ canvas_map = <<>>
    /\ _downloader = FALSE
    /\ _futures = <<>>
    /\ future = <<>>
    /\ queue = <<>>
    /\ threads = {}
    /\ files = <<>>
    /\ error = "none"
    /\ failures = 0
    /\ events = <<>>

NextPass ==
    \/ LoadVisibleTiles(MaxPassTiles, MaxPassEvents)
    \/ OnTouchMove(MaxPassTiles, MaxPassEvents)
    \/ SetZoomAt(MaxPassTiles, MaxPassEvents)

SpecPass == InitPass /\ [][NextPass]_vars

\* ------------------------------------------------------------ properties
Last(seq) == seq[Len(seq)]

\* The tiles a step creates, in the order of their creation.
Created == (Len(tiles) + 1)..Len(tiles')

\* The cells of a rectangle.
RectCells(r) ==
    {<<x, y>> : x \in r.tile_x_first..(r.tile_x_last - 1),
                y \in r.tile_y_first..(r.tile_y_last - 1)}

\* C1: whatever the offset (left of the map, on it, past its end), the size and
\* the zoom, every tile that load_visible_tiles creates has a column in
\* 0 .. get_col_count(zoom) - 1 and a row in 0 .. get_row_count(zoom) - 1.
TilesInsidePyramid ==
    \A t \in DOMAIN tiles :
        /\ 0 <= tiles[t].tile_x /\ tiles[t].tile_x < get_col_count(tiles[t].zoom)
        /\ 0 <= tiles[t].tile_y /\ tiles[t].tile_y < get_row_count(tiles[t].zoom)

\* A pass has run with the viewport hanging over the map's far corner in x and
\* starting above its first row, and has created the last column's tiles.
PassAcrossTheEdges ==
    /\ events # <<>>
    /\ viewport_y < 0
    /\ viewport_x < WorldPx(map_source, zoom)
    /\ viewport_x + Px(width) > WorldPx(map_source, zoom)
    /\ \E t \in DOMAIN tiles : tiles[t].tile_x = get_col_count(zoom) - 1

\* The pass of a step starts from the tile map as it was (load_visible_tiles,
\* on_touch_move) or from an empty one (a set_zoom_at that changes the zoom
\* removes all tiles first; one that does not makes no pass).
Passes ==
    /\ events' # events
    /\ Last(events')[1] = "set_zoom_at" => zoom' # zoom

PresentBefore(c) ==
    /\ Last(events')[1] # "set_zoom_at"
    /\ tile_in_tile_map(View, c[1], c[2])

\* C2: a pass requests each cell of its visible rectangle that is missing from
\* the tile map exactly once, and no other cell; from an empty tile map that
\* is every cell of the rectangle.
SpiralRequestsMissingCells ==
    [][Passes =>
        LET r == VisibleRect(View')
            missing == {c \in RectCells(r) : ~PresentBefore(c)}
        IN  /\ {<<tiles'[t].tile_x, tiles'[t].tile_y>> : t \in Created} = missing
            /\ Cardinality(Created) = Cardinality(missing)]_vars

\* A pass over a 4 x 3 rectangle from an empty tile map, then a drag after
\* which some of its tiles were evicted and the missing cells were created.
SpiralAfterDrag ==
    /\ Len(events) = 2
    /\ Last(events)[1] = "on_touch_move"
    /\ Cardinality(_tilemap) = 12
    /\ Len(tiles) > 12 /\ Len(tiles) < 24
    /\ \E t \in DOMAIN tiles : tiles[t].state = "done"

\* The last handler ended with a pass over the viewport as it is now.
PassEnded ==
    /\ events # <<>>
    /\ Last(events)[1] \in {"center_on", "on_touch_move", "load_visible_tiles",
                             "on_size", "on_map_source"}

\* C3: load_visible_tiles called again after a handler that ended with a pass,
\* the viewport unchanged, creates no tile and submits no job, whatever has
\* become of the tiles and the cache files since.
RepeatedPassCreatesNothing ==
    [][PassEnded /\ events' = Append(events, <<"load_visible_tiles">>) =>
        /\ tiles' = tiles
        /\ future' = future
        /\ queue' = queue
        /\ _futures' = _futures
        /\ _tilemap' = _tilemap]_vars

\* The second pass ran after center_on's pass, with one of its tiles' files
\* fetched and delivered.
PassRepeated ==
    /\ Len(events) = 2
    /\ events[1][1] = "center_on"
    /\ events[2] = <<"load_visible_tiles">>
    /\ Len(tiles) = 4
    /\ \E t \in DOMAIN tiles : tiles[t].source # None

\* C4: a set_zoom_at that changes the zoom keeps the map point under the anchor:
\* on each axis new offset + anchor = (old offset + anchor) * 2^(new zoom - old
\* zoom), the old zoom being the one before the call.
Anchored(old, new, a, dz) ==
    IF dz >= 0 THEN new + a = (old + a) * 2 ^ dz
    ELSE (new + a) * 2 ^ (-dz) = old + a

ZoomKeepsAnchor ==
    [][\A z \in ZoomTargets, a \in Anchors :
        LET z1 == clamp(z, get_min_zoom, get_max_zoom)
        IN  (events' = Append(events, <<"set_zoom_at", z, a[1], a[2]>>) /\ z1 # zoom) =>
                /\ zoom' = z1
                /\ Anchored(viewport_x, viewport_x', Px(a[1]), z1 - zoom)
                /\ Anchored(viewport_y, viewport_y', Px(a[2]), z1 - zoom)]_vars

\* set_zoom_at(6, 60, 40), then set_zoom_at(-1, 60, 40) back out
ZoomedAtAnchor ==
    /\ Len(events) = 2
    /\ events[1] = <<"set_zoom_at", 6, 60, 40>>
    /\ events[2] = <<"set_zoom_at", -1, 60, 40>>
    /\ zoom = 0
    /\ viewport_x # 0
    /\ tiles # <<>>

\* C5: once a tile is done (evicted, unloaded, replaced by a re-centering or a
\* zoom change), no later step sets its source: a result that arrives for it is
\* dropped, whether its job was still queued or already downloading.
StaleResultDiscarded ==
    [][\A t \in DOMAIN tiles :
        tiles[t].state = "done" => tiles'[t].source = tiles[t].source]_vars

\* The drain removes t's future from Downloader._futures in this step.
Drained(t) == t \in Range(_futures) /\ t \notin Range(_futures')

\* C6: the drain moves the loading tile of every job that completed with a
\* result to done and sets its source to the cache path; a tile created with
\* its cache file present is done, with that path, at once.
DrainMarksDone ==
    [][/\ \A t \in DOMAIN tiles :
            (Drained(t) /\ Delivers(t) /\ tiles[t].state = "loading") =>
                /\ tiles'[t].state = "done"
                /\ tiles'[t].source = cache_fn(tiles[t])
       /\ \A t \in Created :
            exists(files, cache_fn(tiles'[t])) =>
                /\ tiles'[t].state = "done"
                /\ tiles'[t].source = cache_fn(tiles'[t])]_vars

\* A thread picks t's job up in this step.
PickedUp(t) == future[t].state = "PENDING" /\ future'[t].state # "PENDING"

Fetching(ths, t) == \E th \in ths : th.tile = t

\* A job is submitted for a new tile only if its cache file is absent, and a
\* thread goes on to the network only if the file is absent at pick-up.
FetchOnlyIfAbsent ==
    /\ \A t \in Created :
          future'[t].state = "PENDING" => ~exists(files, cache_fn(tiles'[t]))
    /\ \A t \in DOMAIN tiles :
          (PickedUp(t) /\ Fetching(threads', t)) => ~exists(files, cache_fn(tiles[t]))

\* The claim of C7 as the spec has it: a job picked up with its cache file
\* present completes with that path.
CacheHitCompletesWithPath ==
    [][/\ FetchOnlyIfAbsent
       /\ \A t \in DOMAIN tiles :
            (PickedUp(t) /\ exists(files, cache_fn(tiles[t]))) =>
                /\ ~Fetching(threads', t)
                /\ future'[t] = [state |-> "FINISHED",
                                 result |-> <<t, cache_fn(tiles[t])>>,
                                 exception |-> FALSE]]_vars

\* C7: a job is submitted only if the cache file is absent when the tile is
\* filled, and goes to the network only if it is absent at pick-up; picked up
\* with the file present, the job of a tile that is not done completes with
\* that path; the job of a done tile completes with no result; neither touches
\* the network.
CacheHitShortCircuit ==
    [][/\ FetchOnlyIfAbsent
       /\ \A t \in DOMAIN tiles :
            (PickedUp(t) /\ tiles[t].state = "done") =>
                /\ ~Fetching(threads', t)
                /\ future'[t] = [state |-> "FINISHED", result |-> None,
                                 exception |-> FALSE]
       /\ \A t \in DOMAIN tiles :
            (PickedUp(t) /\ tiles[t].state # "done"
                         /\ exists(files, cache_fn(tiles[t]))) =>
                /\ ~Fetching(threads', t)
                /\ future'[t] = [state |-> "FINISHED",
                                 result |-> <<t, cache_fn(tiles[t])>>,
                                 exception |-> FALSE]]_vars

\* Two tiles of one cache file: one's job fetched it or found it and completed
\* with the path, the other's, its tile done, completed with no result.
JobsMetCacheFile ==
    \E t, u \in DOMAIN tiles :
        /\ t # u
        /\ cache_fn(tiles[t]) = cache_fn(tiles[u])
        /\ exists(files, cache_fn(tiles[t]))
        /\ future[t].state = "FINISHED" /\ Delivers(t)
        /\ tiles[u].state = "done"
        /\ future[u].state = "FINISHED" /\ ~future[u].exception
        /\ future[u].result = None
        /\ \E v \in DOMAIN tiles :
              /\ v \notin {t, u}
              /\ cache_fn(tiles[v]) = cache_fn(tiles[t])
              /\ future[v].state = "FINISHED" /\ Delivers(v)

ViewportKept == UNCHANGED <<viewport_x, viewport_y, zoom, _tiles, _tilemap>>

\* C8: a job that fails completes with no result and changes no tile, queue or
\* viewport; the drain that meets it absorbs the exception, leaves the tile's
\* source and state as they were, and submits nothing; a failed job stays
\* failed and is never queued again.
FetchErrorsContained ==
    [][\A t \in DOMAIN tiles :
        /\ (future'[t].exception /\ ~future[t].exception) =>
                /\ future'[t].state = "FINISHED" /\ future'[t].result = None
                /\ tiles' = tiles /\ queue' = queue /\ _futures' = _futures
                /\ ViewportKept
        /\ (future[t].exception /\ Drained(t)) =>
                /\ error' = "none"
                /\ tiles'[t] = tiles[t]
                /\ queue' = queue
                /\ ViewportKept
        /\ future[t].exception =>
                /\ future'[t] = future[t]
                /\ t \notin Range(queue')
                /\ ~Fetching(threads', t)]_vars

\* A job failed and was drained; its tile is still loading, with no source.
FailedJobDrained ==
    \E t \in DOMAIN tiles :
        /\ future[t].exception
        /\ t \notin Range(_futures)
        /\ tiles[t].state = "loading"
        /\ tiles[t].source = None
        /\ error = "none"

\* C9: at most MAX_WORKERS jobs are being executed; every other submitted job
\* that has not completed waits in the queue.
AtMostMaxWorkersRun ==
    /\ Cardinality(threads) <= MAX_WORKERS
    /\ Cardinality({t \in DOMAIN future : future[t].state = "RUNNING"}) <= MAX_WORKERS
    /\ \A t \in DOMAIN future : future[t].state = "PENDING" => t \in Range(queue)

\* Both threads are fetching and two more jobs wait.
PoolSaturated ==
    /\ Cardinality(threads) = MAX_WORKERS
    /\ Len(queue) >= 2

\* C10: every tile of MapView._tiles has the view's zoom, and a step that
\* changes the zoom marks every tile tracked before it done and leaves only
\* tiles it has created, at the new zoom, in _tiles and _tilemap.
ActiveSetAtCurrentZoom ==
    [][/\ \A t \in Range(_tiles') : tiles'[t].zoom = zoom'
       /\ zoom' # zoom =>
            /\ \A t \in Range(_tiles) :
                  tiles'[t].state = "done" /\ t \notin Range(_tiles')
            /\ Range(_tiles') \subseteq Created
            /\ _tilemap' = {tile_key(View', tiles'[t].tile_x, tiles'[t].tile_y) :
                                t \in Range(_tiles')}]_vars

\* A zoom change has replaced the tiles of zoom 5, now done, by one of zoom 0.
ZoomReplacedTiles ==
    /\ Len(events) = 2
    /\ Last(events)[1] = "set_zoom_at"
    /\ zoom = 0
    /\ Len(_tiles) = 1
    /\ \E t \in DOMAIN tiles : tiles[t].zoom = DEFAULT_ZOOM /\ tiles[t].state = "done"
\* A thread ends t's download in this step by writing the file.
Wrote(t) ==
    /\ [tile |-> t, pc |-> "write"] \in threads
    /\ ~Fetching(threads', t)
    /\ failures' = failures

ZoomWithinSourceRange ==
    /\ map_source.min_zoom <= zoom
    /\ zoom <= map_source.max_zoom

\* Tile t of view s lies in rectangle r.
TileInRect(s, r, t) == InRect(r, s.tiles[t].tile_x, s.tiles[t].tile_y)

KeyOf(s, t) == tile_key(s, s.tiles[t].tile_x, s.tiles[t].tile_y)

\* The step is a pass over the tiles tracked before it (no remove_all_tiles).
PassOverTracked ==
    /\ events' # events
    /\ Last(events')[1] \in {"load_visible_tiles", "on_touch_move"}

\* C13: after a handler, every tile of MapView._tiles outside the visible
\* rectangle is done and its key is not in _tilemap; a pass leaves every
\* tracked tile inside the rectangle in _tiles, with its state, its source
\* and its key as they were.
EvictionOutsideRect ==
    [][events' # events =>
        LET r == VisibleRect(View')
        IN  /\ \A t \in Range(_tiles') :
                  ~TileInRect(View', r, t) =>
                      /\ tiles'[t].state = "done"
                      /\ KeyOf(View', t) \notin _tilemap'
            /\ PassOverTracked =>
                  \A t \in Range(_tiles) :
                      TileInRect(View, r, t) =>
                          /\ t \in Range(_tiles')
                          /\ tiles'[t] = tiles[t]
                          /\ KeyOf(View, t) \in _tilemap => KeyOf(View', t) \in _tilemap']_vars

\* A pass at offset 0, then a drag of 300 px to the left: the tiles of column
\* 0 are evicted, those of columns 1 and 2 are kept, column 3 is new.
ColumnZeroEvicted ==
    /\ Len(events) = 2
    /\ events[1] = <<"load_visible_tiles">>
    /\ events[2] = <<"on_touch_move", -300, 0>>
    /\ VisibleRect(View).tile_x_first = 1
    /\ \E t \in Range(_tiles) : tiles[t].tile_x = 0
    /\ \A t \in Range(_tiles) : tiles[t].tile_x = 0 => tiles[t].state = "done"
    /\ \E t \in Range(_tiles) : tiles[t].tile_x = 1 /\ tiles[t].state = "loading"
    /\ \E t \in Range(_tiles) : tiles[t].tile_x = 3

\* The pixel range [index * size, (index + 1) * size) of a tile index overlaps
\* the viewport's range [offset, offset + dimension) on one axis.
Overlaps(index, size, offset, dimension) ==
    /\ Px(index * size) < offset + Px(dimension)
    /\ Px((index + 1) * size) > offset

\* The indices 0 .. count - 1 of one axis of the pyramid whose tiles the
\* viewport shows a pixel of (none lies further than one tile from its ends).
OnScreenAxis(count, size, offset, dimension) ==
    {i \in Max2(0, (offset \div Px(size)) - 1)
              ..Min2(count - 1, ((offset + Px(dimension)) \div Px(size)) + 1) :
        Overlaps(i, size, offset, dimension)}

\* The cells of the pyramid that the viewport of view s shows a pixel of.
OnScreen(s) ==
    OnScreenAxis(get_col_count(s.zoom), s.map_source.tile_size, s.viewport_x, s.width)
        \X OnScreenAxis(get_row_count(s.zoom), s.map_source.tile_size, s.viewport_y, s.height)

\* C14: after a pass, every cell of the pyramid whose pixel square overlaps
\* the viewport on both axes lies in the visible rectangle, has its key in
\* _tilemap and has a tracked tile that is not done.
NoVisibleGaps ==
    [][Passes =>
        \A c \in OnScreen(View') :
            /\ InRect(VisibleRect(View'), c[1], c[2])
            /\ tile_in_tile_map(View', c[1], c[2])
            /\ \E t \in Range(_tiles') :
                  /\ tiles'[t].tile_x = c[1] /\ tiles'[t].tile_y = c[2]
                  /\ tiles'[t].state # "done"]_vars

\* A 100 px wide viewport at offset 200 shows pixels of columns 0 and 1 of
\* zoom 3, and the pass has loaded both.
ViewportAcrossTwoColumns ==
    /\ events # <<>>
    /\ zoom = 3 /\ width = 100 /\ viewport_x = Px(200)
    /\ {c[1] : c \in OnScreen(View)} = {0, 1}
    /\ \A c \in OnScreen(View) :
          \E t \in Range(_tiles) :
              /\ tiles[t].tile_x = c[1] /\ tiles[t].tile_y = c[2]
              /\ tiles[t].state = "loading"

\* C15: whenever a tile's source is set, the cache file it names exists and
\* holds the complete fetched bytes, in every interleaving of the pool's
\* threads and the consumer thread.
SourceNamesCompleteFile ==
    \A t \in DOMAIN tiles :
        tiles[t].source # None =>
            /\ exists(files, tiles[t].source)
            /\ files[tiles[t].source] = "data"

\* The step is a tick of the drain that found a finished future.
DrainTick == \E t \in DOMAIN tiles : Drained(t)

\* C16: _check_executor removes from Downloader._futures exactly the futures
\* that are finished and handles each of them in that tick, once: a future it
\* has removed never returns to the list, a future that has not finished
\* stays in it, in its place, and outside the handlers a tile's source is set
\* only in the tick that removes its future.
DrainHandlesCompletedOnce ==
    [][/\ DrainTick =>
            /\ _futures' = SelectSeq(_futures, LAMBDA t : future[t].state # "FINISHED")
            /\ future' = future /\ queue' = queue /\ threads' = threads
       /\ \A t \in DOMAIN tiles :
            /\ Drained(t) => future[t].state = "FINISHED"
            /\ (future[t].state # "NONE" /\ t \notin Range(_futures)) =>
                    /\ t \notin Range(_futures')
                    /\ tiles'[t].source = tiles[t].source
            /\ (events' = events /\ tiles'[t].source # tiles[t].source) =>
                    /\ Drained(t) /\ Delivers(t)
                    /\ tiles'[t].source = future[t].result[2]
       /\ \A i, j \in DOMAIN _futures' : _futures'[i] = _futures'[j] => i = j]_vars

\* After one handler's jobs were submitted, a tick has handled a finished job
\* while another job was running and a third still waited in the queue.
DrainedBesideUnfinished ==
    /\ Len(events) = 1
    /\ \E t \in DOMAIN tiles :
          /\ future[t].state = "FINISHED" /\ Delivers(t)
          /\ t \notin Range(_futures)
          /\ tiles[t].source # None
    /\ \E u \in Range(_futures) : future[u].state = "RUNNING"
    /\ \E u \in Range(_futures) : future[u].state = "PENDING"

Abs(n) == IF n >= 0 THEN n ELSE -n

\* The ring (Chebyshev distance) of tile t of view s around the start cell of
\* the spiral over rectangle r: first + count / 2 - 1 on each axis.
Ring(s, r, t) ==
    Max2(Abs(s.tiles[t].tile_x - (r.tile_x_first + (r.x_count \div 2) - 1)),
         Abs(s.tiles[t].tile_y - (r.tile_y_first + (r.y_count \div 2) - 1)))

\* C17: the tiles one pass creates are created, and their jobs queued, in
\* non-decreasing ring distance from the spiral's start cell: no tile farther
\* from the start is submitted before a nearer one.
SpiralCentreFirst ==
    [][Passes =>
        LET r == VisibleRect(View')
        IN  /\ \A t, u \in Created : t < u => Ring(View', r, t) <= Ring(View', r, u)
            /\ Len(queue') = Len(queue) + Cardinality(Created)
            /\ \A i \in 1..Cardinality(Created) :
                  queue'[Len(queue) + i] = Len(tiles) + i]_vars

\* One pass over a 4 x 3 rectangle: the first tile is the start cell, the
\* twelfth lies two rings out, and the jobs are queued in that order.
SpiralOverFourByThree ==
    /\ Len(events) = 1
    /\ Len(tiles) = 12
    /\ Ring(View, VisibleRect(View), 1) = 0
    /\ Ring(View, VisibleRect(View), 2) = 1
    /\ Ring(View, VisibleRect(View), 12) = 2
    /\ queue = [i \in 1..12 |-> i]

\* The cell of tile t.
Cell(t) == <<tiles[t].tile_x, tiles[t].tile_y>>

\* C18: MapView._tiles, and the canvas, hold at most one tile object per
\* (column, row) cell, and every tile of _tiles that is not done has its key
\* in _tilemap.
OneTilePerCell ==
    /\ \A i, j \in DOMAIN _tiles : Cell(_tiles[i]) = Cell(_tiles[j]) => i = j
    /\ \A i, j \in DOMAIN canvas_map :
          Cell(canvas_map[i]) = Cell(canvas_map[j]) => i = j
    /\ \A t \in Range(_tiles) :
          tiles[t].state # "done" => KeyOf(View, t) \in _tilemap

\* Two coordinates in degree units are equal to within the resolution of the
\* model's Mercator table (its knots are at most 6 degrees apart).
Near(a, b) == Abs(a - b) <= Deg(6)

\* C19: on_size re-centres the view on the point it was centred on: lon and
\* lat after the handler equal lon and lat before it, and the handler ends
\* without an exception.
ResizeKeepsCentre ==
    [][(events' # events /\ Last(events')[1] = "on_size") =>
        /\ error' = "none"
        /\ Near(lon', lon)
        /\ Near(lat', lat)]_vars

\* Tile t has its source, or has left the active set (evicted, unloaded,
\* replaced), or its fetch has failed, or the event loop has ended.
Settled(t) ==
    /\ t \in DOMAIN tiles
    /\ \/ tiles[t].source # None
       \/ tiles[t].state = "done"
       \/ future[t].exception
       \/ error # "none"

\* C20: with the drain tick and the pool's threads scheduled fairly, every
\* tile a pass creates eventually has its source set, at once by a cache hit
\* or by a later drain, unless it leaves the active set or its fetch fails:
\* again and again, all the tiles created so far are settled (tiles are never
\* deleted from the heap, so each one is settled from some point on).
TilesEventuallyFilled ==
    []<>(\A t \in DOMAIN tiles : Settled(t))

\* All four tiles of one pass are still tracked and loading, and each has got
\* its source from a drain after its download.
PassFilledByDrain ==
    /\ Len(_tiles) = 4
    /\ _futures = <<>>
    /\ \A t \in Range(_tiles) :
          /\ tiles[t].state = "loading"
          /\ tiles[t].source = cache_fn(tiles[t])
          /\ future[t].state = "FINISHED" /\ Delivers(t)
          /\ files[cache_fn(tiles[t])] = "data"

====
